---- MODULE Spec2Model ----
(***************************************************************************)
(* AzureADAuthorization (api_app/services/aad_authentication.py): the      *)
(* request-time authorization gate, the process-wide signing-key cache and *)
(* the workspace role resolution, as a state machine.                      *)
(*                                                                         *)
(* State: the class-level key cache _jwt_keys, the identity provider the   *)
(* cache is refreshed from (environment), and the operation the service is *)
(* running or has just completed together with what it returned (op).      *)
(* A gate call runs step by step: each step is one read or one write of    *)
(* _jwt_keys or one request to the provider.  Between two steps the        *)
(* provider may change and the other requests take steps of their own key  *)
(* lookups: lookups holds where each of them is in its refresh and the     *)
(* keys it has fetched and not yet stored.                                 *)
(* SpecCache and SpecRace run signing-key lookups of several threads step  *)
(* by step and keep what each of them returns.                             *)
(***************************************************************************)
EXTENDS Integers, Sequences, FiniteSets, TLC

VARIABLES jwt_keys, idp, op, lookups

vars == <<jwt_keys, idp, op, lookups>>

(***************************************************************************)
(* Program constants                                                       *)
(***************************************************************************)
TRE_CORE_ROLES == {"TREAdmin", "TREUser"}

WORKSPACE_ROLES_DICT ==
    [WorkspaceOwner |-> "app_role_id_workspace_owner",
     WorkspaceResearcher |-> "app_role_id_workspace_researcher",
     AirlockManager |-> "app_role_id_workspace_airlock_manager"]

\* config.API_AUDIENCE: the audience of the core (TRE API) app registration
API_AUDIENCE == "api_audience"

\* Python's None (a token header without kid) and a missing dict key
None == "None"
Absent == "absent"

(***************************************************************************)
(* Bounds of the model                                                     *)
(***************************************************************************)
\* most role names in an endpoint's require_one_of_roles
MaxRequire == 2
\* most entries of a token's roles claim
MaxTokenRoles == 1
\* most key records in one key-set document
MaxKeys == 2
\* most role assignments a caller holds
MaxAssignments == 2
\* most records of an appRoleAssignedTo answer
MaxRoleAssignments == 2
\* most responses of a batch answer
MaxResponses == 2
\* most app roles an app registration defines
MaxAppRoles == 3
\* most directory objects in a getByIds answer
MaxObjects == 2
\* most threads looking a signing key up at once
MaxThreads == 2
\* longest base64 field of a key record, in characters
MaxKeyLen == 6

Kids == {"k1", "k2"}
\* RSA moduli (the n of a published key; the key pair a token is signed with)
Moduli == {"n1", "n2"}
\* the role names endpoints and tokens are drawn from: core and workspace ones
RoleNames == {"TREAdmin", "TREUser", "WorkspaceOwner"}
\* client_id of the workspace found by the resource lookup
WS_CLIENT_ID == "ws_client_id"
Audiences == {API_AUDIENCE, WS_CLIENT_ID, "other_audience"}

\* the element of a one-element set; {F(x) : x \in {e}} evaluates e once
Only(S) == CHOOSE x \in S : TRUE

(***************************************************************************)
(* Identity provider (environment): what the metadata and key-set          *)
(* endpoints answer at the moment.                                         *)
(***************************************************************************)
\* the key records the provider publishes: k1, the key id the tokens name,
\* with either modulus (a rotation republishes it), k2 with one modulus
KeyRecords == {r \in [kid : Kids, n : Moduli] : r.kid = "k2" => r.n = "n2"}

SeqsUpTo(S, n) == UNION {[1..m -> S] : m \in 0..n}

\* key-set documents: each kid at most once
KeySets ==
    {s \in SeqsUpTo(KeyRecords, MaxKeys) :
        \A i, j \in 1..Len(s) : i # j => s[i].kid # s[j].kid}

IdpModes == {"ok", "metadata_not_ok", "no_jwks_uri", "jwks_not_ok", "no_keys_field"}

IdpStates ==
    {[mode |-> "ok", keys |-> s] : s \in KeySets}
        \cup {[mode |-> m, keys |-> <<>>] : m \in IdpModes \ {"ok"}}

(***************************************************************************)
(* _ensure_b64padding: a key field is a sequence of characters, one byte   *)
(* each once encoded (the base64 alphabet is ASCII)                        *)
(***************************************************************************)
KeyChars == {"A", "="}

KeyStrings == SeqsUpTo(KeyChars, MaxKeyLen)

\* n times the byte '='
Padding(n) == [i \in 1..n |-> "="]

\* lines 141-145: len(key) % 4 times, key = key + b'='
_ensure_b64padding(key) == key \o Padding(Len(key) % 4)

(***************************************************************************)
(* KeyCache: _get_token_key                                                *)
(***************************************************************************)
\* rsa.PublicKey(n, e).save_pkcs1() of a published key record: the PEM bytes
PemOf(n) == [format |-> "pkcs1_pem", modulus |-> n]

NoKey == [format |-> "none", modulus |-> "none"]

\* AzureADAuthorization._jwt_keys[kid] = value
Put(cache, kid, value) ==
    [k \in DOMAIN cache \cup {kid} |-> IF k = kid THEN value ELSE cache[k]]

\* faulty variant: the store assigns a new dict holding the one key
StoreOne_Clobber(cache, key) == Put(<<>>, key.kid, PemOf(key.n))

\* faulty variant: a key id republished with other material starts a new cache
StoreOne_ResetOnRotation(cache, key) ==
    IF key.kid \in DOMAIN cache /\ cache[key.kid] # PemOf(key.n)
    THEN Put(<<>>, key.kid, PemOf(key.n))
    ELSE Put(cache, key.kid, PemOf(key.n))

\* lines 160-164: one pass of the loop body
StoreOne(cache, key) == Put(cache, key.kid, PemOf(key.n))

\* faulty variant: the key set is asked for whatever the metadata answer was
AfterMetadata_IgnoreAnswer(provider) == "jwks"

\* lines 153-155: the key set is asked for only when the metadata answer is
\* ok and names a jwks_uri
AfterMetadata(provider) ==
    IF provider.mode \in {"metadata_not_ok", "no_jwks_uri"} THEN "return"
    ELSE "jwks"

\* lines 157-159: the keys of the key-set answer, none unless it is ok and
\* has a keys field
FetchedKeys(provider) == IF provider.mode = "ok" THEN provider.keys ELSE <<>>

\* faulty variant: the loop stops after the first key of the key set
AfterStore_FirstOnly(keys) == "return"

\* line 159: the loop goes on while keys of the fetched key set remain
AfterStore(keys) == IF Tail(keys) = <<>> THEN "return" ELSE "store"

\* for key in keys['keys']: _jwt_keys[key['kid']] = pub_key.save_pkcs1()
RECURSIVE StoreKeys(_, _)
StoreKeys(cache, keys) ==
    IF keys = <<>> THEN cache
    ELSE StoreKeys(Put(cache, Head(keys).kid, PemOf(Head(keys).n)), Tail(keys))

\* the refresh on a miss: metadata document, then key set, then the store loop
Refresh(cache, provider) ==
    LET jwks_uri == provider.mode \notin {"metadata_not_ok", "no_jwks_uri"}
        keys_ok  == jwks_uri /\ provider.mode = "ok"
    IN  [keys |-> IF keys_ok THEN StoreKeys(cache, provider.keys) ELSE cache,
         meta_calls |-> 1,
         jwks_calls |-> IF jwks_uri THEN 1 ELSE 0]

\* faulty variant: _jwt_keys.get(key_id), no error for an absent key id
Lookup_Get(cache, key_id) ==
    [exc |-> "none", key |-> IF key_id \in DOMAIN cache THEN cache[key_id] ELSE NoKey]

\* return AzureADAuthorization._jwt_keys[key_id]  (KeyError when absent)
Lookup(cache, key_id) ==
    IF key_id \in DOMAIN cache
    THEN [exc |-> "none", key |-> cache[key_id]]
    ELSE [exc |-> "KeyError", key |-> NoKey]

_get_token_key(key_id, cache, provider) ==
    Only({[keys |-> r.keys, meta_calls |-> r.meta_calls,
           jwks_calls |-> r.jwks_calls,
           exc |-> Lookup(r.keys, key_id).exc, key |-> Lookup(r.keys, key_id).key] :
          r \in {IF key_id \notin DOMAIN cache
                 THEN Refresh(cache, provider)
                 ELSE [keys |-> cache, meta_calls |-> 0, jwks_calls |-> 0]}})

(***************************************************************************)
(* Tokens and TokenVerifier: _get_key_id, _decode_token                    *)
(***************************************************************************)
RoleSets(n) == {S \in SUBSET RoleNames : Cardinality(S) <= n}

\* the key ids the tokens of the gate's requests name (None: no kid in the header)
TokenKids == {"k1", None}

\* A bearer token: header kid, the key pair that signed it, and its payload.
\* A malformed token has no readable header.  Fields nothing reads are fixed:
\* all but the header of a token without kid (no key is ever found for it),
\* the audience of an expired token, the other claims of a token without oid;
\* name and email are both present or both absent.
WellFormedTokens ==
    {t \in [malformed : {FALSE}, kid : TokenKids, sig_n : Moduli,
            aud : Audiences, expired : BOOLEAN,
            oid : {Absent, "u1"}, name : {Absent, "Ann"},
            email : {Absent, "ann@tre"},
            has_roles : BOOLEAN, roles : RoleSets(MaxTokenRoles)] :
        /\ t.has_roles \/ t.roles = {}
        /\ (t.name = Absent) = (t.email = Absent)
        /\ t.kid = None =>
            t.sig_n = "n1" /\ ~t.expired /\ t.aud = API_AUDIENCE /\ t.oid = Absent
        /\ t.expired => t.aud = API_AUDIENCE
        /\ t.oid = Absent => t.name = Absent /\ ~t.has_roles}

MalformedToken ==
    [malformed |-> TRUE, kid |-> None, sig_n |-> "n1", aud |-> "other_audience",
     expired |-> FALSE, oid |-> Absent, name |-> Absent, email |-> Absent,
     has_roles |-> FALSE, roles |-> {}]

Tokens == WellFormedTokens \cup {MalformedToken}

\* jwt.decode(token, key, verify_signature, RS256, audience): signature first,
\* then expiry, then audience
jwt_decode(token, key, audience) ==
    IF key # PemOf(token.sig_n) THEN "InvalidSignatureError"
    ELSE IF token.expired THEN "ExpiredSignatureError"
    ELSE IF token.aud # audience THEN "InvalidAudienceError"
    ELSE "none"

\* jwt.get_unverified_header(token); headers['kid'] or None
_get_key_id(token) ==
    IF token.malformed THEN [exc |-> "DecodeError", kid |-> None]
    ELSE [exc |-> "none", kid |-> token.kid]

\* lines 127-129: jwt.decode with the key the lookup k gave, or the lookup's
\* own exception
_decode_token(token, audience, k) ==
    IF k.exc # "none" THEN k.exc ELSE jwt_decode(token, k.key, audience)

(***************************************************************************)
(* AuthorizationGate: AzureADAuthorization.__call__                        *)
(***************************************************************************)
\* the payload jwt.decode returns for a verified token
Claims(token) ==
    [oid |-> token.oid, name |-> token.name, email |-> token.email,
     has_roles |-> token.has_roles, roles |-> token.roles]

NoClaims ==
    [oid |-> Absent, name |-> Absent, email |-> Absent,
     has_roles |-> FALSE, roles |-> {}]

NoUser == [id |-> "", name |-> "", email |-> "", roles |-> {}]

\* faulty variant: the email is read from the name claim
_get_user_from_token_EmailFromName(decoded_token) ==
    IF decoded_token.oid = Absent
    THEN [exc |-> "KeyError", user |-> NoUser]
    ELSE [exc |-> "none",
          user |-> [id |-> decoded_token.oid,
                    name |-> IF decoded_token.name = Absent THEN ""
                             ELSE decoded_token.name,
                    email |-> IF decoded_token.name = Absent THEN ""
                              ELSE decoded_token.name,
                    roles |-> IF decoded_token.has_roles THEN decoded_token.roles
                              ELSE {}]]

\* decoded_token['oid'] raises KeyError when absent; the others default
_get_user_from_token(decoded_token) ==
    IF decoded_token.oid = Absent
    THEN [exc |-> "KeyError", user |-> NoUser]
    ELSE [exc |-> "none",
          user |-> [id |-> decoded_token.oid,
                    name |-> IF decoded_token.name = Absent THEN ""
                             ELSE decoded_token.name,
                    email |-> IF decoded_token.email = Absent THEN ""
                              ELSE decoded_token.email,
                    roles |-> IF decoded_token.has_roles THEN decoded_token.roles
                              ELSE {}]]

\* the state of the workspace repository for the id in the path:
\* the workspace with its client_id, no such workspace (EntityDoesNotExist),
\* or a workspace whose properties hold no client_id (KeyError)
RepoStates == {"found", "not_exist", "no_client_id"}

_fetch_ws_app_reg_id_from_ws_id(request) ==
    IF request.workspace_id = Absent
    THEN [exc |-> "HTTP_401", app_reg_id |-> None]
    ELSE IF request.repo = "not_exist"
    THEN [exc |-> "HTTP_404", app_reg_id |-> None]
    ELSE IF request.repo # "found"
    THEN [exc |-> "HTTP_401", app_reg_id |-> None]
    ELSE [exc |-> "none", app_reg_id |-> WS_CLIENT_ID]

\* any(role in self.require_one_of_roles for role in names)
AnyRoleIn(names, require_one_of_roles) == names \cap require_one_of_roles # {}

\* line 54: is the workspace app registration tried
TryWorkspace(request) ==
    /\ request.workspace_id # Absent
    /\ AnyRoleIn(DOMAIN WORKSPACE_ROLES_DICT, request.require_one_of_roles)

\* an attempt that was not made
NotTried ==
    [tried |-> FALSE, exc |-> "not_tried", audience |-> None,
     meta_calls |-> 0, jwks_calls |-> 0]

\* an attempt that was made: its audience, how it ended (every exception of
\* the workspace attempt is swallowed, exc records which one it was) and the
\* requests it made to the provider
Attempt(audience, exc, meta_calls, jwks_calls) ==
    [tried |-> TRUE, exc |-> exc, audience |-> audience,
     meta_calls |-> meta_calls, jwks_calls |-> jwks_calls]

\* a call that waits in _get_token_key for the attempt against audience
Calling(request, scope, audience, a1) ==
    [kind |-> "calling", request |-> request, scope |-> scope,
     audience |-> audience, a1 |-> a1, pc |-> "check",
     key_id |-> _get_key_id(request.token).kid, keys |-> <<>>,
     meta_calls |-> 0, jwks_calls |-> 0]

\* faulty variant: the core attempt is made whatever the workspace attempt gave
TryCore_Always(request, decoded) ==
    AnyRoleIn(TRE_CORE_ROLES, request.require_one_of_roles)

\* faulty variant: the core attempt is made whatever roles are required
TryCore_AnyRoles(request, decoded) == ~decoded

\* line 66: is the TRE API app registration tried
TryCore(request, decoded) ==
    /\ ~decoded
    /\ AnyRoleIn(TRE_CORE_ROLES, request.require_one_of_roles)

\* line 69: the exceptions of the core attempt that are swallowed
CoreSwallowed == {"InvalidSignatureError"}

\* faulty variant: any role at all passes
HasRequiredRole_AnyRole(user, require_one_of_roles) == user.roles # {}

\* line 85: the caller holds one of the required roles
HasRequiredRole(user, require_one_of_roles) ==
    AnyRoleIn(user.roles, require_one_of_roles)

\* lines 73-93: what the request ends with, given the two attempts a1, a2
Outcome(request, a1, a2) ==
    LET raised == a2.tried /\ a2.exc \notin CoreSwallowed \cup {"none"}
        decoded_token ==
            IF a1.exc = "none" \/ a2.exc = "none" THEN Claims(request.token)
            ELSE NoClaims
        u == _get_user_from_token(decoded_token)
        status ==
            IF raised THEN "raised"
            ELSE IF a1.exc # "none" /\ a2.exc # "none" THEN "401"
            ELSE IF u.exc # "none" THEN "401"
            ELSE IF ~HasRequiredRole(u.user, request.require_one_of_roles)
            THEN "403"
            ELSE "allow"
    IN  [kind |-> "call", request |-> request, status |-> status,
         exc |-> IF raised THEN a2.exc ELSE "none",
         user |-> IF status = "allow" THEN u.user ELSE NoUser,
         attempts |->
            (IF a1.tried
             THEN <<[scope |-> "workspace", audience |-> a1.audience,
                     exc |-> a1.exc]>>
             ELSE <<>>)
            \o (IF a2.tried
                THEN <<[scope |-> "core", audience |-> a2.audience,
                        exc |-> a2.exc]>>
                ELSE <<>>),
         meta_calls |-> a1.meta_calls + a2.meta_calls,
         jwks_calls |-> a1.jwks_calls + a2.jwks_calls]

\* lines 66-71 up to the key lookup of the core attempt, and lines 73-93 when
\* there is none: the call after its workspace attempt a1
CoreAttempt(request, a1) ==
    IF ~TryCore(request, a1.exc = "none") THEN Outcome(request, a1, NotTried)
    ELSE IF _get_key_id(request.token).exc # "none"
    THEN Outcome(request, a1,
                 Attempt(API_AUDIENCE, _get_key_id(request.token).exc, 0, 0))
    ELSE Calling(request, "core", API_AUDIENCE, a1)

\* lines 54-63 up to the key lookup of the workspace attempt: the workspace's
\* app registration is resolved and the token header read
WorkspaceAttempt(request) ==
    IF ~TryWorkspace(request) THEN CoreAttempt(request, NotTried)
    ELSE IF _fetch_ws_app_reg_id_from_ws_id(request).exc # "none"
    THEN CoreAttempt(request,
             Attempt(None, _fetch_ws_app_reg_id_from_ws_id(request).exc, 0, 0))
    ELSE IF _get_key_id(request.token).exc # "none"
    THEN CoreAttempt(request,
             Attempt(_fetch_ws_app_reg_id_from_ws_id(request).app_reg_id,
                     _get_key_id(request.token).exc, 0, 0))
    ELSE Calling(request, "workspace",
                 _fetch_ws_app_reg_id_from_ws_id(request).app_reg_id, NotTried)

\* The payload of a token is read by nothing but a jwt.decode that verified
\* it: a request arrives with its payload unread,
UnreadTokens == {t \in Tokens : Claims(t) = NoClaims}

\* and the decode that verifies the token returns one of its payloads
Decoded(token) ==
    {t \in WellFormedTokens :
        /\ t.kid = token.kid /\ t.sig_n = token.sig_n
        /\ t.aud = token.aud /\ t.expired = token.expired}

Requests ==
    {r \in [workspace_id : {Absent, "ws1"}, repo : RepoStates,
            require_one_of_roles : RoleSets(MaxRequire), token : UnreadTokens] :
        r.workspace_id = Absent => r.repo = "found"}

(***************************************************************************)
(* RoleResolver: get_workspace_role                                        *)
(***************************************************************************)
\* service principal ids and app role ids of the directory
SpIds == {"sp1", "sp2"}
RoleIds == {"r1", "r2", "r3"}

\* RoleAssignment(resource_id, role_id): a value, compared field by field
RoleAssignment(resource_id, role_id) ==
    [resource_id |-> resource_id, role_id |-> role_id]

\* a caller's role assignments (user_role_assignments; only membership is read)
AssignmentLists ==
    {a \in SUBSET {RoleAssignment(sp, r) : sp \in SpIds, r \in RoleIds} :
        Cardinality(a) <= MaxAssignments}

\* workspace.properties: the auth configuration of a workspace, any key of
\* which may be missing (nothing is read after a missing sp_id)
WorkspaceProperties ==
    {p \in [sp_id : {Absent, "sp1"},
            app_role_id_workspace_owner : RoleIds \cup {Absent},
            app_role_id_workspace_researcher : RoleIds \cup {Absent},
            app_role_id_workspace_airlock_manager : RoleIds \cup {Absent}] :
        p.sp_id = Absent =>
            /\ p.app_role_id_workspace_owner = Absent
            /\ p.app_role_id_workspace_researcher = Absent
            /\ p.app_role_id_workspace_airlock_manager = Absent}

\* faulty variant: an assignment is matched on its role id alone
get_workspace_role_RoleIdOnly(properties, user_role_assignments) ==
    IF properties.sp_id = Absent
    THEN [exc |-> "AuthConfigValidationError", role |-> "none"]
    ELSE IF \E name \in DOMAIN WORKSPACE_ROLES_DICT :
                properties[WORKSPACE_ROLES_DICT[name]] = Absent
    THEN [exc |-> "AuthConfigValidationError", role |-> "none"]
    ELSE IF \E a \in user_role_assignments :
                a.role_id = properties.app_role_id_workspace_owner
    THEN [exc |-> "none", role |-> "Owner"]
    ELSE IF \E a \in user_role_assignments :
                a.role_id = properties.app_role_id_workspace_researcher
    THEN [exc |-> "none", role |-> "Researcher"]
    ELSE IF \E a \in user_role_assignments :
                a.role_id = properties.app_role_id_workspace_airlock_manager
    THEN [exc |-> "none", role |-> "AirlockManager"]
    ELSE [exc |-> "none", role |-> "NoRole"]

\* faulty variant: the three role ids are not checked before the membership tests
get_workspace_role_NoRoleIdCheck(properties, user_role_assignments) ==
    IF properties.sp_id = Absent
    THEN [exc |-> "AuthConfigValidationError", role |-> "none"]
    ELSE IF RoleAssignment(properties.sp_id,
                           properties.app_role_id_workspace_owner)
                \in user_role_assignments
    THEN [exc |-> "none", role |-> "Owner"]
    ELSE IF RoleAssignment(properties.sp_id,
                           properties.app_role_id_workspace_researcher)
                \in user_role_assignments
    THEN [exc |-> "none", role |-> "Researcher"]
    ELSE IF RoleAssignment(properties.sp_id,
                           properties.app_role_id_workspace_airlock_manager)
                \in user_role_assignments
    THEN [exc |-> "none", role |-> "AirlockManager"]
    ELSE IF \E name \in DOMAIN WORKSPACE_ROLES_DICT :
                properties[WORKSPACE_ROLES_DICT[name]] = Absent
    THEN [exc |-> "AuthConfigValidationError", role |-> "none"]
    ELSE [exc |-> "none", role |-> "NoRole"]

\* faulty variant: the researcher assignment is looked for before the owner's
get_workspace_role_ResearcherFirst(properties, user_role_assignments) ==
    IF properties.sp_id = Absent
    THEN [exc |-> "AuthConfigValidationError", role |-> "none"]
    ELSE IF \E name \in DOMAIN WORKSPACE_ROLES_DICT :
                properties[WORKSPACE_ROLES_DICT[name]] = Absent
    THEN [exc |-> "AuthConfigValidationError", role |-> "none"]
    ELSE IF RoleAssignment(properties.sp_id,
                           properties.app_role_id_workspace_researcher)
                \in user_role_assignments
    THEN [exc |-> "none", role |-> "Researcher"]
    ELSE IF RoleAssignment(properties.sp_id,
                           properties.app_role_id_workspace_owner)
                \in user_role_assignments
    THEN [exc |-> "none", role |-> "Owner"]
    ELSE IF RoleAssignment(properties.sp_id,
                           properties.app_role_id_workspace_airlock_manager)
                \in user_role_assignments
    THEN [exc |-> "none", role |-> "AirlockManager"]
    ELSE [exc |-> "none", role |-> "NoRole"]

\* lines 358-374
get_workspace_role(properties, user_role_assignments) ==
    IF properties.sp_id = Absent
    THEN [exc |-> "AuthConfigValidationError", role |-> "none"]
    ELSE IF \E name \in DOMAIN WORKSPACE_ROLES_DICT :
                properties[WORKSPACE_ROLES_DICT[name]] = Absent
    THEN [exc |-> "AuthConfigValidationError", role |-> "none"]
    ELSE IF RoleAssignment(properties.sp_id,
                           properties.app_role_id_workspace_owner)
                \in user_role_assignments
    THEN [exc |-> "none", role |-> "Owner"]
    ELSE IF RoleAssignment(properties.sp_id,
                           properties.app_role_id_workspace_researcher)
                \in user_role_assignments
    THEN [exc |-> "none", role |-> "Researcher"]
    ELSE IF RoleAssignment(properties.sp_id,
                           properties.app_role_id_workspace_airlock_manager)
                \in user_role_assignments
    THEN [exc |-> "none", role |-> "AirlockManager"]
    ELSE [exc |-> "none", role |-> "NoRole"]

(***************************************************************************)
(* DirectoryClient: the batch request body and the emails per role         *)
(***************************************************************************)
PrincipalIds == {"p1", "p2"}

\* class PrincipalType
PrincipalTypes == {"User", "Group", "ServicePrincipal"}

\* roles_graph_data: the appRoleAssignedTo answer of the directory
RolesGraphData ==
    {[value |-> v] :
        v \in SeqsUpTo([principalId : PrincipalIds, principalType : PrincipalTypes,
                        appRoleId : RoleIds], MaxRoleAssignments)}

_get_users_endpoint(user_object_id) ==
    "/users/" \o user_object_id \o "?$select=mail,id"

_get_group_members_endpoint(group_object_id) ==
    "/groups/" \o group_object_id \o "/transitiveMembers?$select=mail,id"

\* faulty variant: met_principal_ids is never added to
RECURSIVE BatchRequests_NoDedup(_, _, _)
BatchRequests_NoDedup(value, requests, met_principal_ids) ==
    IF value = <<>> THEN requests
    ELSE IF Head(value).principalType = "User"
    THEN BatchRequests_NoDedup(Tail(value),
             Append(requests,
                    [method |-> "GET",
                     url |-> _get_users_endpoint(Head(value).principalId),
                     id |-> Head(value).principalId]),
             met_principal_ids)
    ELSE IF Head(value).principalType = "Group"
    THEN BatchRequests_NoDedup(Tail(value),
             Append(requests,
                    [method |-> "GET",
                     url |-> _get_group_members_endpoint(Head(value).principalId),
                     id |-> Head(value).principalId]),
             met_principal_ids)
    ELSE BatchRequests_NoDedup(Tail(value), requests, met_principal_ids)

\* lines 252-265: the loop over roles_graph_data['value']
RECURSIVE BatchRequests(_, _, _)
BatchRequests(value, requests, met_principal_ids) ==
    IF value = <<>> THEN requests
    ELSE IF Head(value).principalId \in met_principal_ids
    THEN BatchRequests(Tail(value), requests, met_principal_ids)
    ELSE IF Head(value).principalType = "User"
    THEN BatchRequests(Tail(value),
             Append(requests,
                    [method |-> "GET",
                     url |-> _get_users_endpoint(Head(value).principalId),
                     id |-> Head(value).principalId]),
             met_principal_ids \cup {Head(value).principalId})
    ELSE IF Head(value).principalType = "Group"
    THEN BatchRequests(Tail(value),
             Append(requests,
                    [method |-> "GET",
                     url |-> _get_group_members_endpoint(Head(value).principalId),
                     id |-> Head(value).principalId]),
             met_principal_ids \cup {Head(value).principalId})
    ELSE BatchRequests(Tail(value), requests, met_principal_ids)

_get_batch_users_by_role_assignments_body(roles_graph_data) ==
    [requests |-> BatchRequests(roles_graph_data.value, <<>>, {})]

\* the mail the directory holds for a user
MailOf(principal_id) == principal_id \o "@tre"

\* users_graph_data: the answer to the batch request.  The body of a response
\* to a users sub-request holds id and mail (mail may be null); any other body
\* (the member list of a group, an error) holds no mail field.
BatchResponses ==
    {[body |-> [has_mail |-> FALSE, id |-> None, mail |-> None]]}
        \cup UNION {{[body |-> [has_mail |-> TRUE, id |-> p, mail |-> m]] :
                         m \in {None, MailOf(p)}} : p \in PrincipalIds}

UsersGraphData ==
    {[responses |-> r] : r \in SeqsUpTo(BatchResponses, MaxResponses)}

\* faulty variant: a null mail is stored like any other
RECURSIVE UserEmails_KeepNull(_, _)
UserEmails_KeepNull(responses, user_emails) ==
    IF responses = <<>> THEN [exc |-> "none", user_emails |-> user_emails]
    ELSE IF ~Head(responses).body.has_mail
    THEN [exc |-> "KeyError", user_emails |-> user_emails]
    ELSE UserEmails_KeepNull(Tail(responses),
             Put(user_emails, Head(responses).body.id, Head(responses).body.mail))

\* lines 234-237: the id-to-email mapping (KeyError on a body without mail)
RECURSIVE UserEmails(_, _)
UserEmails(responses, user_emails) ==
    IF responses = <<>> THEN [exc |-> "none", user_emails |-> user_emails]
    ELSE IF ~Head(responses).body.has_mail
    THEN [exc |-> "KeyError", user_emails |-> user_emails]
    ELSE IF Head(responses).body.mail # None
    THEN UserEmails(Tail(responses),
             Put(user_emails, Head(responses).body.id, Head(responses).body.mail))
    ELSE UserEmails(Tail(responses), user_emails)

\* workspace_role_assignments_details: a defaultdict(list), so a list nothing
\* was appended to reads as the empty list
NoDetails == [researcher_emails |-> <<>>, owner_emails |-> <<>>]

\* lines 240-245: the loop over roles_graph_data['value']
RECURSIVE RoleAssignmentEmails(_, _, _, _)
RoleAssignmentEmails(value, user_emails, properties, details) ==
    IF value = <<>> THEN details
    ELSE IF ~(/\ Head(value).principalType = "User"
              /\ Head(value).principalId \in DOMAIN user_emails)
    THEN RoleAssignmentEmails(Tail(value), user_emails, properties, details)
    ELSE IF Head(value).appRoleId = properties.app_role_id_workspace_researcher
    THEN RoleAssignmentEmails(Tail(value), user_emails, properties,
             [details EXCEPT !.researcher_emails =
                 Append(@, user_emails[Head(value).principalId])])
    ELSE IF Head(value).appRoleId = properties.app_role_id_workspace_owner
    THEN RoleAssignmentEmails(Tail(value), user_emails, properties,
             [details EXCEPT !.owner_emails =
                 Append(@, user_emails[Head(value).principalId])])
    ELSE RoleAssignmentEmails(Tail(value), user_emails, properties, details)

\* the properties get_workspace_role_assignment_details reads (lines 230-232)
DetailsProperties ==
    [sp_id : {"sp1"}, app_role_id_workspace_researcher : {"r1"},
     app_role_id_workspace_owner : {"r1", "r2"}]

\* lines 229-247, given the two answers of _get_user_emails_with_role_asssignment
get_workspace_role_assignment_details(properties, roles_graph_data, users_graph_data) ==
    Only({IF m.exc # "none"
          THEN [exc |-> m.exc, details |-> NoDetails]
          ELSE [exc |-> "none",
                details |-> RoleAssignmentEmails(roles_graph_data.value,
                                m.user_emails, properties, NoDetails)] :
          m \in {UserEmails(users_graph_data.responses, <<>>)}})

(***************************************************************************)
(* DirectoryClient: the auth information of a workspace's app registration *)
(***************************************************************************)
\* the app roles an app registration defines: the workspace ones and others
AppRoleValues == DOMAIN WORKSPACE_ROLES_DICT \cup {"OtherRole"}

AppRoles == SeqsUpTo([value : AppRoleValues, id : {"r1", "r2"}], MaxAppRoles)

\* the answers of _get_app_sp_graph_data: no value field (an error answer),
\* no application, or the service principal of the application
ServicePrincipalGraphData ==
    {[has_value |-> FALSE, value |-> <<>>], [has_value |-> TRUE, value |-> <<>>]}
        \cup {[has_value |-> TRUE,
               value |-> <<[id |-> "sp1", servicePrincipalNames |-> <<"api://ws1">>,
                            appRoles |-> a]>>] : a \in AppRoles}

\* lines 282-284: the role ids of the workspace roles among the app roles
RECURSIVE AppRoleIds(_, _)
AppRoleIds(appRoles, authInfo) ==
    IF appRoles = <<>> THEN authInfo
    ELSE IF Head(appRoles).value \in DOMAIN WORKSPACE_ROLES_DICT
    THEN AppRoleIds(Tail(appRoles),
             Put(authInfo, WORKSPACE_ROLES_DICT[Head(appRoles).value],
                 Head(appRoles).id))
    ELSE AppRoleIds(Tail(appRoles), authInfo)

\* lines 272-286, given the answer of _get_app_sp_graph_data
_get_app_auth_info(client_id, graph_data) ==
    IF ~graph_data.has_value \/ Len(graph_data.value) = 0
    THEN [exc |-> "AuthConfigValidationError", authInfo |-> <<>>]
    ELSE [exc |-> "none",
          authInfo |->
              AppRoleIds(graph_data.value[1].appRoles,
                  [sp_id |-> graph_data.value[1].id,
                   scope_id |-> graph_data.value[1].servicePrincipalNames[1]])]

\* faulty variant: only the owner role is required
MissingRoles_OwnerOnly(auth_info) ==
    {name \in {"WorkspaceOwner"} : WORKSPACE_ROLES_DICT[name] \notin DOMAIN auth_info}

\* lines 336-338: the workspace roles whose id auth_info lacks
MissingRoles(auth_info) ==
    {name \in DOMAIN WORKSPACE_ROLES_DICT :
        WORKSPACE_ROLES_DICT[name] \notin DOMAIN auth_info}

\* the data a workspace is created from, as far as it is read here
AuthData == [client_id : {Absent, "auto_create", "ws_client_id"}]

\* lines 325-340; graph_calls counts the directory calls made
extract_workspace_auth_information(data, graph_data) ==
    IF data.client_id = Absent
    THEN [exc |-> "AuthConfigValidationError", auth_info |-> <<>>, graph_calls |-> 0]
    ELSE IF data.client_id = "auto_create"
    THEN [exc |-> "none", auth_info |-> <<>>, graph_calls |-> 0]
    ELSE Only({IF r.exc # "none"
               THEN [exc |-> r.exc, auth_info |-> <<>>, graph_calls |-> 1]
               ELSE IF MissingRoles(r.authInfo) # {}
               THEN [exc |-> "AuthConfigValidationError", auth_info |-> <<>>,
                     graph_calls |-> 1]
               ELSE [exc |-> "none", auth_info |-> r.authInfo, graph_calls |-> 1] :
               r \in {_get_app_auth_info(data.client_id, graph_data)}})

(***************************************************************************)
(* DirectoryClient: the role assignments of an identity                    *)
(***************************************************************************)
OdataTypes ==
    {"#microsoft.graph.user", "#microsoft.graph.servicePrincipal",
     "#microsoft.graph.group"}

\* the answers of directoryObjects/getByIds
IdentityGraphData ==
    {[has_value |-> FALSE, value |-> <<>>]}
        \cup {[has_value |-> TRUE, value |-> v] :
                 v \in SeqsUpTo({[has_type |-> FALSE, odata_type |-> None]}
                                    \cup {[has_type |-> TRUE, odata_type |-> t] :
                                             t \in OdataTypes},
                                MaxObjects)}

\* the answers of an appRoleAssignments endpoint
NoValue == [has_value |-> FALSE, value |-> <<>>]

AssignmentGraphData ==
    {NoValue}
        \cup {[has_value |-> TRUE, value |-> v] :
                 v \in SeqsUpTo([resourceId : SpIds, appRoleId : RoleIds],
                                MaxAssignments)}

\* lines 302-323, given the answer of getByIds
_get_identity_type(id, graph_data) ==
    IF ~graph_data.has_value \/ Len(graph_data.value) # 1
    THEN [exc |-> "AuthConfigValidationError", type |-> None]
    ELSE IF ~graph_data.value[1].has_type
    THEN [exc |-> "AuthConfigValidationError", type |-> None]
    ELSE [exc |-> "none", type |-> graph_data.value[1].odata_type]

\* lines 288-293
_get_role_assignment_graph_data_for_user(user_id, directory) ==
    [endpoint |-> "https://graph.microsoft.com/v1.0/users/" \o user_id
                      \o "/appRoleAssignments",
     graph_data |-> directory.users]

\* lines 295-300
_get_role_assignment_graph_data_for_service_principal(principal_id, directory) ==
    [endpoint |-> "https://graph.microsoft.com/v1.0/servicePrincipals/"
                      \o principal_id \o "/appRoleAssignments",
     graph_data |-> directory.servicePrincipals]

\* lines 352-356: the RoleAssignments of an answer (no value field: an error)
RoleAssignmentsOf(answer) ==
    IF ~answer.graph_data.has_value
    THEN [exc |-> "AuthConfigValidationError", assignments |-> <<>>,
          endpoint |-> answer.endpoint]
    ELSE [exc |-> "none",
          assignments |->
              [i \in 1..Len(answer.graph_data.value) |->
                  RoleAssignment(answer.graph_data.value[i].resourceId,
                                 answer.graph_data.value[i].appRoleId)],
          endpoint |-> answer.endpoint]

\* the directory as get_identity_role_assignments sees it: the answer of
\* getByIds and of the two appRoleAssignments endpoints (an endpoint the
\* identity's type does not lead to answers without a value field)
Directories ==
    {d \in [identity : IdentityGraphData, users : AssignmentGraphData,
            servicePrincipals : AssignmentGraphData] :
        LET t == _get_identity_type("p1", d.identity)
        IN  /\ t.type # "#microsoft.graph.user" => d.users = NoValue
            /\ t.type # "#microsoft.graph.servicePrincipal"
                   => d.servicePrincipals = NoValue}

\* lines 342-356; in the else branch line 349 reads graph_data, which no
\* branch taken has assigned: UnboundLocalError
get_identity_role_assignments(user_id, directory) ==
    Only({IF t.exc # "none"
          THEN [exc |-> t.exc, assignments |-> <<>>, endpoint |-> None]
          ELSE IF t.type = "#microsoft.graph.user"
          THEN RoleAssignmentsOf(
                   _get_role_assignment_graph_data_for_user(user_id, directory))
          ELSE IF t.type = "#microsoft.graph.servicePrincipal"
          THEN RoleAssignmentsOf(
                   _get_role_assignment_graph_data_for_service_principal(
                       user_id, directory))
          ELSE [exc |-> "UnboundLocalError", assignments |-> <<>>,
                endpoint |-> None] :
          t \in {_get_identity_type(user_id, directory.identity)}})

(***************************************************************************)
(* The state machine                                                       *)
(***************************************************************************)
Idle == [kind |-> "idle"]

\* no completed operation waits for its caller
Running == op.kind \in {"idle", "calling"}

\* the requests in the gate besides the one the model follows
Others == 2..MaxThreads

\* another request that is not between the miss and the last store of a
\* refresh: it is outside _get_token_key, at its start, or at line 166
OtherIdle == [pc |-> "idle", keys |-> <<>>]

Init ==
    /\ jwt_keys = <<>>
    /\ idp \in IdpStates
    /\ op = Idle
    /\ lookups = [t \in Others |-> OtherIdle]

\* a request reaches the gate (Depends(AzureADAuthorization(...))): lines
\* 47-58 up to the first key lookup
Call ==
    /\ op = Idle
    /\ \E request \in Requests : op' = WorkspaceAttempt(request)
    /\ UNCHANGED <<jwt_keys, idp, lookups>>

\* line 151 in the call: if key_id not in _jwt_keys
CallCheckKey ==
    /\ op.kind = "calling" /\ op.pc = "check"
    /\ op' = [op EXCEPT !.pc = IF op.key_id \in DOMAIN jwt_keys
                                THEN "return" ELSE "metadata"]
    /\ UNCHANGED <<jwt_keys, idp, lookups>>

\* lines 152-155 in the call: the metadata document and its jwks_uri
CallFetchMetadata ==
    /\ op.kind = "calling" /\ op.pc = "metadata"
    /\ op' = [op EXCEPT !.pc = AfterMetadata(idp), !.meta_calls = @ + 1]
    /\ UNCHANGED <<jwt_keys, idp, lookups>>

\* lines 156-159 in the call: the key set
CallFetchKeySet ==
    /\ op.kind = "calling" /\ op.pc = "jwks"
    /\ op' = [op EXCEPT !.pc = IF FetchedKeys(idp) # <<>> THEN "store"
                                ELSE "return",
                        !.keys = FetchedKeys(idp),
                        !.jwks_calls = @ + 1]
    /\ UNCHANGED <<jwt_keys, idp, lookups>>

\* lines 159-164 in the call: the next key of the fetched key set is stored
CallStoreKey ==
    /\ op.kind = "calling" /\ op.pc = "store"
    /\ jwt_keys' = StoreOne(jwt_keys, Head(op.keys))
    /\ op' = [op EXCEPT !.pc = AfterStore(op.keys), !.keys = Tail(@)]
    /\ UNCHANGED <<idp, lookups>>

\* line 166 in the call, the decode of lines 127-129 and what follows it
\* without a wait: after the workspace attempt lines 59-71 up to the key
\* lookup of the core attempt, else lines 73-93
CallReturnKey ==
    /\ op.kind = "calling" /\ op.pc = "return"
    /\ \E exc \in {_decode_token(op.request.token, op.audience,
                                  Lookup(jwt_keys, op.key_id))} :
        \E token \in (IF exc = "none" THEN Decoded(op.request.token)
                       ELSE {op.request.token}) :
            \E request \in {[op.request EXCEPT !.token = token]},
               a \in {Attempt(op.audience, exc, op.meta_calls, op.jwks_calls)} :
                op' = IF op.scope = "workspace" THEN CoreAttempt(request, a)
                      ELSE Outcome(request, op.a1, a)
    /\ UNCHANGED <<jwt_keys, idp, lookups>>

\* the caller takes the result of the completed operation
Deliver ==
    /\ ~Running
    /\ op' = Idle
    /\ UNCHANGED <<jwt_keys, idp, lookups>>

\* environment: the provider rotates its keys or starts or stops failing
IdpChange ==
    /\ idp' \in IdpStates \ {idp}
    /\ UNCHANGED <<jwt_keys, op, lookups>>

\* line 151 run by another request: the key id of its token (any of the
\* published ones or none) is not in _jwt_keys
OtherMiss(t) ==
    /\ lookups[t].pc = "idle"
    /\ \E key_id \in Kids \cup {None} : key_id \notin DOMAIN jwt_keys
    /\ lookups' = [lookups EXCEPT ![t].pc = "metadata"]
    /\ UNCHANGED <<jwt_keys, idp, op>>

\* lines 152-155 run by another request
OtherFetchMetadata(t) ==
    /\ lookups[t].pc = "metadata"
    /\ lookups' = [lookups EXCEPT
                      ![t].pc = IF AfterMetadata(idp) = "jwks" THEN "jwks"
                                ELSE "idle"]
    /\ UNCHANGED <<jwt_keys, idp, op>>

\* lines 156-159 run by another request: it keeps the key set it is answered
OtherFetchKeySet(t) ==
    /\ lookups[t].pc = "jwks"
    /\ lookups' = [lookups EXCEPT
                      ![t].pc = IF FetchedKeys(idp) # <<>> THEN "store"
                                ELSE "idle",
                      ![t].keys = FetchedKeys(idp)]
    /\ UNCHANGED <<jwt_keys, idp, op>>

\* lines 159-164 run by another request: it stores the next key it fetched
OtherStoreKey(t) ==
    /\ lookups[t].pc = "store"
    /\ jwt_keys' = StoreOne(jwt_keys, Head(lookups[t].keys))
    /\ lookups' = [lookups EXCEPT
                      ![t].pc = IF AfterStore(lookups[t].keys) = "store"
                                THEN "store" ELSE "idle",
                      ![t].keys = Tail(@)]
    /\ UNCHANGED <<idp, op>>

Next ==
    \/ Call
    \/ CallCheckKey
    \/ CallFetchMetadata
    \/ CallFetchKeySet
    \/ CallStoreKey
    \/ CallReturnKey
    \/ Deliver
    \/ IdpChange
    \/ \E t \in Others :
        \/ OtherMiss(t)
        \/ OtherFetchMetadata(t)
        \/ OtherFetchKeySet(t)
        \/ OtherStoreKey(t)

Spec == Init /\ [][Next]_vars

\* The role resolution reads and writes nothing of the key cache or the
\* provider: it is run on its own, from one initial state.
InitRoles ==
    /\ jwt_keys = <<>>
    /\ idp = [mode |-> "ok", keys |-> <<>>]
    /\ op = Idle
    /\ lookups = <<>>

GetWorkspaceRole ==
    /\ op = Idle
    /\ \E properties \in WorkspaceProperties, assignments \in AssignmentLists :
        \E r \in {get_workspace_role(properties, assignments)} :
            op' = [kind |-> "get_workspace_role", properties |-> properties,
                   assignments |-> assignments, exc |-> r.exc, role |-> r.role]
    /\ UNCHANGED <<jwt_keys, idp, lookups>>

NextRoles == GetWorkspaceRole \/ Deliver

SpecRoles == InitRoles /\ [][NextRoles]_vars

\* The directory operations read and write nothing of the key cache either.
GetBatchBody ==
    /\ op = Idle
    /\ \E roles_graph_data \in RolesGraphData :
        \E body \in {_get_batch_users_by_role_assignments_body(roles_graph_data)} :
            op' = [kind |-> "batch_body", roles_graph_data |-> roles_graph_data,
                   body |-> body]
    /\ UNCHANGED <<jwt_keys, idp, lookups>>

GetWorkspaceRoleAssignmentDetails ==
    /\ op = Idle
    /\ \E properties \in DetailsProperties, roles_graph_data \in RolesGraphData,
          users_graph_data \in UsersGraphData :
        \E r \in {get_workspace_role_assignment_details(
                      properties, roles_graph_data, users_graph_data)} :
            op' = [kind |-> "role_assignment_details", properties |-> properties,
                   roles_graph_data |-> roles_graph_data,
                   users_graph_data |-> users_graph_data,
                   exc |-> r.exc, details |-> r.details]
    /\ UNCHANGED <<jwt_keys, idp, lookups>>

\* the directory is asked only for a client_id other than auto_create
ExtractWorkspaceAuthInformation ==
    /\ op = Idle
    /\ \E data \in AuthData, graph_data \in ServicePrincipalGraphData :
        /\ data.client_id \in {Absent, "auto_create"}
               => graph_data = [has_value |-> FALSE, value |-> <<>>]
        /\ \E r \in {extract_workspace_auth_information(data, graph_data)} :
            op' = [kind |-> "auth_information", data |-> data,
                   graph_data |-> graph_data, exc |-> r.exc,
                   auth_info |-> r.auth_info, graph_calls |-> r.graph_calls]
    /\ UNCHANGED <<jwt_keys, idp, lookups>>

GetIdentityRoleAssignments ==
    /\ op = Idle
    /\ \E user_id \in {"p1"}, directory \in Directories :
        \E r \in {get_identity_role_assignments(user_id, directory)} :
            op' = [kind |-> "identity_role_assignments", user_id |-> user_id,
                   directory |-> directory, exc |-> r.exc,
                   assignments |-> r.assignments, endpoint |-> r.endpoint]
    /\ UNCHANGED <<jwt_keys, idp, lookups>>

\* The padding of a key field is a function of the field alone.
EnsureB64Padding ==
    /\ op = Idle
    /\ \E key \in KeyStrings :
        \E padded \in {_ensure_b64padding(key)} :
            op' = [kind |-> "ensure_b64padding", key |-> key, padded |-> padded]
    /\ UNCHANGED <<jwt_keys, idp, lookups>>

NextPadding == EnsureB64Padding \/ Deliver

SpecPadding == InitRoles /\ [][NextPadding]_vars

NextDirectory ==
    \/ GetBatchBody
    \/ GetWorkspaceRoleAssignmentDetails
    \/ ExtractWorkspaceAuthInformation
    \/ GetIdentityRoleAssignments
    \/ Deliver

SpecDirectory == InitRoles /\ [][NextDirectory]_vars

(***************************************************************************)
(* _get_token_key step by step, run by several threads at once: each step  *)
(* is one read or one write of _jwt_keys or one request to the provider.   *)
(* In SpecRace the threads start on a cold cache and the provider does not *)
(* change; in SpecCache the provider changes and a thread that is done     *)
(* starts the next lookup.                                                 *)
(***************************************************************************)
Threads == 1..MaxThreads

NoResult == [exc |-> "pending", key |-> NoKey]

\* a thread that enters _get_token_key(key_id); refresh tells whether it
\* made no refresh, one that failed, or one that fetched a key set with or
\* without a key of its key id
Entering(key_id) ==
    [pc |-> "check", key_id |-> key_id, keys |-> <<>>, refresh |-> "none",
     result |-> NoResult, meta_calls |-> 0, jwks_calls |-> 0]

InitRace ==
    /\ jwt_keys = <<>>
    /\ idp \in IdpStates
    /\ op = Idle
    /\ lookups \in [Threads -> {Entering(k) : k \in Kids \cup {None}}]

\* line 151: if key_id not in _jwt_keys
CheckKey(t) ==
    /\ lookups[t].pc = "check"
    /\ lookups' = [lookups EXCEPT ![t].pc =
                      IF lookups[t].key_id \in DOMAIN jwt_keys
                      THEN "return" ELSE "metadata"]
    /\ UNCHANGED <<jwt_keys, idp, op>>

\* lines 152-155: the metadata document and its jwks_uri
FetchMetadata(t) ==
    /\ lookups[t].pc = "metadata"
    /\ lookups' = [lookups EXCEPT
                      ![t].pc = AfterMetadata(idp),
                      ![t].refresh = "failed",
                      ![t].meta_calls = @ + 1]
    /\ UNCHANGED <<jwt_keys, idp, op>>

\* lines 156-159: the key set
FetchKeySet(t) ==
    /\ lookups[t].pc = "jwks"
    /\ lookups' = [lookups EXCEPT
                      ![t].pc = IF FetchedKeys(idp) # <<>> THEN "store"
                                ELSE "return",
                      ![t].keys = FetchedKeys(idp),
                      ![t].refresh =
                          IF idp.mode # "ok" THEN "failed"
                          ELSE IF \E i \in 1..Len(idp.keys) :
                                      idp.keys[i].kid = lookups[t].key_id
                          THEN "with_key" ELSE "without_key",
                      ![t].jwks_calls = @ + 1]
    /\ UNCHANGED <<jwt_keys, idp, op>>

\* lines 159-164: the next key of the fetched key set is stored
StoreKey(t) ==
    /\ lookups[t].pc = "store"
    /\ jwt_keys' = StoreOne(jwt_keys, Head(lookups[t].keys))
    /\ lookups' = [lookups EXCEPT
                      ![t].pc = AfterStore(lookups[t].keys),
                      ![t].keys = Tail(@)]
    /\ UNCHANGED <<idp, op>>

\* line 166: return _jwt_keys[key_id]
ReturnKey(t) ==
    /\ lookups[t].pc = "return"
    /\ lookups' = [lookups EXCEPT
                      ![t].pc = "done",
                      ![t].result = Lookup(jwt_keys, lookups[t].key_id)]
    /\ UNCHANGED <<jwt_keys, idp, op>>

NextRace ==
    \E t \in Threads :
        \/ CheckKey(t)
        \/ FetchMetadata(t)
        \/ FetchKeySet(t)
        \/ StoreKey(t)
        \/ ReturnKey(t)

SpecRace == InitRace /\ [][NextRace]_vars

\* line 147: the thread is handed the next token and enters _get_token_key
EnterLookup(t) ==
    /\ lookups[t].pc = "done"
    /\ \E key_id \in Kids \cup {None} :
        lookups' = [lookups EXCEPT ![t] = Entering(key_id)]
    /\ UNCHANGED <<jwt_keys, idp, op>>

NextCache ==
    \/ IdpChange
    \/ \E t \in Threads :
        \/ EnterLookup(t)
        \/ CheckKey(t)
        \/ FetchMetadata(t)
        \/ FetchKeySet(t)
        \/ StoreKey(t)
        \/ ReturnKey(t)

SpecCache == InitRace /\ [][NextCache]_vars

(***************************************************************************)
(* What a completed gate call shows                                        *)
(***************************************************************************)
IsCall == op.kind = "call"

\* the attempts of the completed call that verified the token
Succeeded == {i \in 1..Len(op.attempts) : op.attempts[i].exc = "none"}

\* the audience scope the token was verified against ("none": not verified)
VerifiedScope ==
    IF Succeeded = {} THEN "none" ELSE op.attempts[CHOOSE i \in Succeeded : TRUE].scope

\* the roles claim of the request's token, empty when absent
TokenRoles == IF op.request.token.has_roles THEN op.request.token.roles ELSE {}

(***************************************************************************)
(* C1: every request in which no verification attempt succeeds ends with   *)
(* Deny(Unauthenticated), HTTP 401, whatever the kind of failure: never a  *)
(* raw exception, never Allow.                                             *)
(***************************************************************************)
C1_FailedVerificationIs401 ==
    (IsCall /\ Succeeded = {}) => op.status = "401"

(***************************************************************************)
(* C2: once a verification attempt has succeeded and the User is built,    *)
(* the outcome is Allow if and only if the User's roles and the required   *)
(* roles share a name, and Deny(Forbidden), 403, when they share none; no  *)
(* User is returned whose roles miss the required ones or without a        *)
(* successful verification.                                                *)
(***************************************************************************)
C2_AllowIffRolesIntersect ==
    IsCall =>
        /\ (Succeeded # {} /\ op.request.token.oid # Absent) =>
            /\ (op.status = "allow")
                   <=> (TokenRoles \cap op.request.require_one_of_roles # {})
            /\ (op.status = "403")
                   <=> (TokenRoles \cap op.request.require_one_of_roles = {})
        /\ op.status = "allow" =>
            /\ Succeeded # {}
            /\ op.user.roles \cap op.request.require_one_of_roles # {}

C2_Witness ==
    /\ IsCall /\ Succeeded # {} /\ op.status = "403"
    /\ TokenRoles # {}

(***************************************************************************)
(* C3: the workspace-audience attempt is made only for a path with a       *)
(* workspace_id and required roles naming a workspace role, and it comes   *)
(* first; the core-audience attempt is made only when the workspace        *)
(* attempt was not made or failed and the required roles name a core role; *)
(* after a successful workspace verification no core verification is made. *)
(***************************************************************************)
C3_AttemptOrder ==
    IsCall =>
        LET a == op.attempts
            require == op.request.require_one_of_roles
        IN  /\ \A i \in 1..Len(a) :
                a[i].scope = "workspace" =>
                    /\ i = 1
                    /\ op.request.workspace_id # Absent
                    /\ DOMAIN WORKSPACE_ROLES_DICT \cap require # {}
            /\ \A i \in 1..Len(a) :
                a[i].scope = "core" =>
                    /\ i = 1 \/ (i = 2 /\ a[1].scope = "workspace"
                                       /\ a[1].exc # "none")
                    /\ TRE_CORE_ROLES \cap require # {}
            /\ (Len(a) >= 1 /\ a[1].scope = "workspace" /\ a[1].exc = "none")
                   => Len(a) = 1

C3_Witness ==
    /\ IsCall /\ Len(op.attempts) = 1
    /\ op.attempts[1].scope = "workspace" /\ op.attempts[1].exc = "none"
    /\ TRE_CORE_ROLES \cap op.request.require_one_of_roles # {}

(***************************************************************************)
(* C4: when the resource lookup finds no workspace for the id in the path  *)
(* (EntityDoesNotExist), the fault the gate raises is 404 Not Found.       *)
(***************************************************************************)
C4_MissingWorkspaceIs404 ==
    (/\ IsCall
     /\ Len(op.attempts) >= 1
     /\ op.attempts[1].scope = "workspace"
     /\ op.request.repo = "not_exist") => op.status = "404"

(***************************************************************************)
(* C5: role scope matches audience scope: a request allowed on a core role *)
(* name was verified against the core audience, one allowed on a workspace *)
(* role name against the workspace's own audience.                         *)
(***************************************************************************)
C5_RoleScopeMatchesAudience ==
    (IsCall /\ op.status = "allow") =>
        \E r \in op.user.roles \cap op.request.require_one_of_roles :
            \/ r \in TRE_CORE_ROLES /\ VerifiedScope = "core"
            \/ r \in DOMAIN WORKSPACE_ROLES_DICT /\ VerifiedScope = "workspace"

(***************************************************************************)
(* C6: the User the gate returns is built from the claims of exactly one   *)
(* successful verification: id is the token's oid, roles its roles claim   *)
(* (empty when absent), name and email its claims or empty.                *)
(***************************************************************************)
C6_UserFromVerifiedClaims ==
    (IsCall /\ op.status = "allow") =>
        LET t == op.request.token
        IN  /\ Cardinality(Succeeded) = 1
            /\ t.oid # Absent /\ op.user.id = t.oid
            /\ op.user.roles = TokenRoles
            /\ op.user.name = (IF t.name = Absent THEN "" ELSE t.name)
            /\ op.user.email = (IF t.email = Absent THEN "" ELSE t.email)

C6_Witness ==
    /\ IsCall /\ op.status = "allow"
    /\ Len(op.attempts) = 2 /\ VerifiedScope = "core"
    /\ op.request.token.name # Absent

(***************************************************************************)
(* C7: once a key id is in _jwt_keys, every later _get_token_key call for  *)
(* it returns the same key material and calls neither the metadata nor the *)
(* key-set endpoint: the material stored under a key id stays what it was, *)
(* and a lookup that finds the key id returns it without a fetch.          *)
(***************************************************************************)
C7_HitReturnsSameKey ==
    [][\A k \in DOMAIN jwt_keys :
        /\ k \in DOMAIN jwt_keys' /\ jwt_keys'[k] = jwt_keys[k]
        /\ \A t \in Threads :
            /\ (/\ lookups[t].key_id = k /\ lookups[t].pc = "check"
                /\ lookups'[t] # lookups[t]) =>
                    /\ lookups'[t].pc = "return"
                    /\ lookups'[t].meta_calls = 0 /\ lookups'[t].jwks_calls = 0
            /\ (/\ lookups[t].key_id = k /\ lookups[t].pc = "return"
                /\ lookups'[t] # lookups[t]) =>
                    lookups'[t].result = [exc |-> "none", key |-> jwt_keys[k]]]_vars

(***************************************************************************)
(* C8: a successful refresh stores every key of the fetched key set under  *)
(* its own kid: once a lookup has fetched the key set and left the store   *)
(* loop, a lookup of any key id of that key set is a hit with no further   *)
(* fetch.                                                                  *)
(***************************************************************************)
C8_RefreshStoresEveryKey ==
    \A t \in DOMAIN lookups :
        (/\ lookups[t].pc \in {"return", "done"}
         /\ lookups[t].refresh \in {"with_key", "without_key"}) =>
            \A i \in 1..Len(idp.keys) :
                \E again \in {_get_token_key(idp.keys[i].kid, jwt_keys, idp)} :
                    /\ idp.keys[i].kid \in DOMAIN jwt_keys
                    /\ again.exc = "none" /\ again.key = PemOf(idp.keys[i].n)
                    /\ again.meta_calls = 0 /\ again.jwks_calls = 0
                    /\ again.keys = jwt_keys

C8_Witness ==
    /\ lookups # <<>> /\ Len(idp.keys) = 2
    /\ lookups[1].pc = "done" /\ lookups[1].refresh = "with_key"
    /\ lookups[1].key_id = idp.keys[1].kid
    /\ lookups[2].pc = "done" /\ lookups[2].refresh = "none"
    /\ lookups[2].key_id = idp.keys[2].kid
    /\ lookups[2].result = [exc |-> "none", key |-> PemOf(idp.keys[2].n)]

(***************************************************************************)
(* C9: a lookup of a key id still absent after the refresh fails with the  *)
(* key-not-found error (KeyError), and _decode_token reports it as the     *)
(* failure of that audience attempt, not as any other fault: the attempt   *)
(* whose lookup returns ends with KeyError exactly when its key id is not  *)
(* in _jwt_keys at line 166.                                               *)
(***************************************************************************)
C9_AbsentKeyIsKeyNotFound ==
    [][(op.kind = "calling" /\ op.pc = "return" /\ op' # op) =>
        \E a \in {IF op'.kind = "calling" THEN op'.a1
                   ELSE op'.attempts[Len(op'.attempts)]} :
            /\ a.audience = op.audience
            /\ (op.key_id \notin DOMAIN jwt_keys) <=> (a.exc = "KeyError")]_vars

C9_Witness ==
    /\ IsCall /\ Len(op.attempts) >= 1
    /\ op.attempts[1].scope = "workspace" /\ op.attempts[1].exc = "KeyError"
    /\ op.jwks_calls >= 1 /\ idp.mode = "ok"

(***************************************************************************)
(* What a completed role resolution shows                                  *)
(***************************************************************************)
IsRoleOp == op.kind = "get_workspace_role"

\* the workspace has its sp_id and all three role ids
CompleteConfig ==
    /\ op.properties.sp_id # Absent
    /\ op.properties.app_role_id_workspace_owner # Absent
    /\ op.properties.app_role_id_workspace_researcher # Absent
    /\ op.properties.app_role_id_workspace_airlock_manager # Absent

\* the caller holds (sp_id of the workspace, role_id)
Holds(role_id) ==
    [resource_id |-> op.properties.sp_id, role_id |-> role_id] \in op.assignments

(***************************************************************************)
(* C10: for a workspace with complete auth configuration the resolved role *)
(* is Owner whenever the caller holds (sp_id, owner role id); Researcher   *)
(* only when that pair is absent and (sp_id, researcher role id) is held;  *)
(* AirlockManager only when both are absent and (sp_id, airlock manager    *)
(* role id) is held.                                                       *)
(***************************************************************************)
C10_RolePriority ==
    (IsRoleOp /\ CompleteConfig) =>
        LET p == op.properties
        IN  /\ op.exc = "none"
            /\ Holds(p.app_role_id_workspace_owner) => op.role = "Owner"
            /\ op.role = "Researcher" =>
                /\ ~Holds(p.app_role_id_workspace_owner)
                /\ Holds(p.app_role_id_workspace_researcher)
            /\ op.role = "AirlockManager" =>
                /\ ~Holds(p.app_role_id_workspace_owner)
                /\ ~Holds(p.app_role_id_workspace_researcher)
                /\ Holds(p.app_role_id_workspace_airlock_manager)

C10_Witness ==
    /\ IsRoleOp /\ CompleteConfig
    /\ op.properties.app_role_id_workspace_owner
           # op.properties.app_role_id_workspace_researcher
    /\ Holds(op.properties.app_role_id_workspace_owner)
    /\ Holds(op.properties.app_role_id_workspace_researcher)
    /\ op.role = "Owner"


(***************************************************************************)
(* C11: for a completely configured workspace get_workspace_role returns   *)
(* NoRole exactly when none of the three (sp_id, configured role id) pairs *)
(* equals an element of the caller's assignments: an assignment with a     *)
(* configured role id on another service principal grants nothing, and an  *)
(* empty assignment list gives NoRole.                                     *)
(***************************************************************************)
C11_NoRoleIffNoPairHeld ==
    (IsRoleOp /\ CompleteConfig) =>
        LET p == op.properties
        IN  /\ (op.role = "NoRole") <=>
                    /\ ~Holds(p.app_role_id_workspace_owner)
                    /\ ~Holds(p.app_role_id_workspace_researcher)
                    /\ ~Holds(p.app_role_id_workspace_airlock_manager)
            /\ op.assignments = {} => op.role = "NoRole"

C11_Witness ==
    /\ IsRoleOp /\ CompleteConfig /\ op.role = "NoRole"
    /\ \E a \in op.assignments :
        /\ a.role_id = op.properties.app_role_id_workspace_owner
        /\ a.resource_id # op.properties.sp_id

(***************************************************************************)
(* C12: get_workspace_role fails with AuthConfigValidationError whenever   *)
(* the workspace's properties lack sp_id or one of the three role ids, and *)
(* only then; it fails before any membership test, so no role at all (not  *)
(* Owner for a caller holding the owner pair, not NoRole) is returned.     *)
(***************************************************************************)
C12_IncompleteConfigFails ==
    IsRoleOp =>
        /\ (~CompleteConfig) <=> (op.exc = "AuthConfigValidationError")
        /\ (~CompleteConfig) => op.role = "none"
        /\ op.exc \in {"none", "AuthConfigValidationError"}

C12_Witness ==
    /\ IsRoleOp /\ op.exc = "AuthConfigValidationError"
    /\ op.properties.sp_id # Absent
    /\ op.properties.app_role_id_workspace_owner # Absent
    /\ op.properties.app_role_id_workspace_airlock_manager = Absent
    /\ Holds(op.properties.app_role_id_workspace_owner)


(***************************************************************************)
(* What a completed directory operation shows                              *)
(***************************************************************************)
IsDetails == op.kind = "role_assignment_details"

IsBatchBody == op.kind = "batch_body"

IsAuthInformation == op.kind = "auth_information"

IsIdentityRoles == op.kind = "identity_role_assignments"

\* the non-null mails the batch answer holds for a principal
MailsIn(principal_id) ==
    {op.users_graph_data.responses[i].body.mail :
        i \in {j \in 1..Len(op.users_graph_data.responses) :
                  /\ op.users_graph_data.responses[j].body.has_mail
                  /\ op.users_graph_data.responses[j].body.id = principal_id
                  /\ op.users_graph_data.responses[j].body.mail # None}}

Range(seq) == {seq[i] : i \in 1..Len(seq)}

(***************************************************************************)
(* C13: get_workspace_role_assignment_details: a user entry of the batch   *)
(* answer whose mail is null raises no fault and is left out of the        *)
(* mapping, so the role assignments of a principal without a non-null mail *)
(* contribute no email; every User assignment of a principal with a mail   *)
(* contributes that mail, once, to the list matching its role id.          *)
(***************************************************************************)
C13_NullMailLeftOut ==
    IsDetails =>
        LET rs == op.users_graph_data.responses
            v == op.roles_graph_data.value
            researcher == op.properties.app_role_id_workspace_researcher
            owner == op.properties.app_role_id_workspace_owner
            contributing ==
                {i \in 1..Len(v) :
                    /\ v[i].principalType = "User"
                    /\ MailsIn(v[i].principalId) # {}
                    /\ v[i].appRoleId \in {researcher, owner}}
        IN  /\ (op.exc # "none") <=> (\E i \in 1..Len(rs) : ~rs[i].body.has_mail)
            /\ op.exc = "none" =>
                /\ Len(op.details.researcher_emails) + Len(op.details.owner_emails)
                       = Cardinality(contributing)
                /\ \A i \in contributing :
                    \/ /\ v[i].appRoleId = researcher
                       /\ MailsIn(v[i].principalId)
                              \cap Range(op.details.researcher_emails) # {}
                    \/ /\ v[i].appRoleId = owner
                       /\ MailsIn(v[i].principalId)
                              \cap Range(op.details.owner_emails) # {}
                /\ \A e \in Range(op.details.researcher_emails) :
                    \E i \in contributing :
                        v[i].appRoleId = researcher /\ e \in MailsIn(v[i].principalId)
                /\ \A e \in Range(op.details.owner_emails) :
                    \E i \in contributing :
                        v[i].appRoleId = owner /\ e \in MailsIn(v[i].principalId)

C13_Witness ==
    /\ IsDetails /\ op.exc = "none"
    /\ op.properties.app_role_id_workspace_owner
           # op.properties.app_role_id_workspace_researcher
    /\ \E i \in 1..Len(op.users_graph_data.responses) :
        /\ op.users_graph_data.responses[i].body.mail = None
        /\ \E j \in 1..Len(op.roles_graph_data.value) :
            /\ op.roles_graph_data.value[j].principalType = "User"
            /\ op.roles_graph_data.value[j].principalId
                   = op.users_graph_data.responses[i].body.id
            /\ op.roles_graph_data.value[j].appRoleId
                   = op.properties.app_role_id_workspace_researcher
    /\ op.details.researcher_emails = <<>>
    /\ Len(op.details.owner_emails) = 1

(***************************************************************************)
(* C18: _get_batch_users_by_role_assignments_body: every distinct User or  *)
(* Group principal id of the role assignments has exactly one GET          *)
(* sub-request (id the principal id; the users endpoint for a User, the    *)
(* transitive members endpoint for a Group), in order of first occurrence; *)
(* a repeated principal id adds none and a ServicePrincipal gets none.     *)
(***************************************************************************)
C18_BatchBodyOnePerPrincipal ==
    IsBatchBody =>
        LET v == op.roles_graph_data.value
            reqs == op.body.requests
            ug == {i \in 1..Len(v) : v[i].principalType \in {"User", "Group"}}
            first(p) == CHOOSE i \in ug :
                            /\ v[i].principalId = p
                            /\ \A j \in ug : v[j].principalId = p => i <= j
        IN  /\ {reqs[k].id : k \in 1..Len(reqs)} = {v[i].principalId : i \in ug}
            /\ \A k, l \in 1..Len(reqs) : k # l => reqs[k].id # reqs[l].id
            /\ \A k \in 1..Len(reqs) :
                /\ reqs[k].method = "GET"
                /\ reqs[k].url =
                       IF v[first(reqs[k].id)].principalType = "User"
                       THEN "/users/" \o reqs[k].id \o "?$select=mail,id"
                       ELSE "/groups/" \o reqs[k].id
                                \o "/transitiveMembers?$select=mail,id"
            /\ \A k, l \in 1..Len(reqs) :
                k < l => first(reqs[k].id) < first(reqs[l].id)

C18_Witness ==
    /\ IsBatchBody
    /\ Len(op.roles_graph_data.value) = 2
    /\ op.roles_graph_data.value[1].principalId
           = op.roles_graph_data.value[2].principalId
    /\ op.roles_graph_data.value[1].principalType = "Group"
    /\ op.roles_graph_data.value[2].principalType = "Group"
    /\ Len(op.body.requests) = 1

(***************************************************************************)
(* C19: extract_workspace_auth_information: data without client_id fails   *)
(* with AuthConfigValidationError; client_id auto_create gives an empty    *)
(* auth info and no directory call; for any other client_id auth info is   *)
(* returned only if the directory found the application and the auth info  *)
(* holds all three workspace role ids, otherwise AuthConfigValidationError *)
(* is raised and no partial auth info is returned.                         *)
(***************************************************************************)
C19_AuthInfoCompleteOrError ==
    IsAuthInformation =>
        LET c == op.data.client_id
            g == op.graph_data
            found == g.has_value /\ Len(g.value) >= 1
            defined == IF found
                       THEN {g.value[1].appRoles[i].value :
                                i \in 1..Len(g.value[1].appRoles)}
                       ELSE {}
        IN  /\ op.exc \in {"none", "AuthConfigValidationError"}
            /\ c = Absent => op.exc = "AuthConfigValidationError"
            /\ c = "auto_create" =>
                /\ op.exc = "none"
                /\ DOMAIN op.auth_info = {}
                /\ op.graph_calls = 0
            /\ c \notin {Absent, "auto_create"} =>
                /\ (op.exc = "none")
                       <=> (found /\ DOMAIN WORKSPACE_ROLES_DICT \subseteq defined)
                /\ op.exc = "none" =>
                    /\ op.auth_info.sp_id = g.value[1].id
                    /\ \A name \in DOMAIN WORKSPACE_ROLES_DICT :
                        /\ WORKSPACE_ROLES_DICT[name] \in DOMAIN op.auth_info
                        /\ \E i \in 1..Len(g.value[1].appRoles) :
                            /\ g.value[1].appRoles[i].value = name
                            /\ g.value[1].appRoles[i].id
                                   = op.auth_info[WORKSPACE_ROLES_DICT[name]]
                /\ op.exc # "none" => DOMAIN op.auth_info = {}

C19_Witness ==
    /\ IsAuthInformation /\ op.exc = "AuthConfigValidationError"
    /\ op.data.client_id = "ws_client_id"
    /\ op.graph_data.has_value /\ Len(op.graph_data.value) = 1
    /\ {op.graph_data.value[1].appRoles[i].value :
           i \in 1..Len(op.graph_data.value[1].appRoles)}
           = {"WorkspaceOwner", "WorkspaceResearcher", "OtherRole"}

(***************************************************************************)
(* C20: get_identity_role_assignments: a user is resolved through the user *)
(* role-assignment endpoint and a service principal through the service    *)
(* principal endpoint, each giving one RoleAssignment(resourceId,          *)
(* appRoleId) per record of the answer; for an identity of any other type  *)
(* and for an answer without a value field the call fails with             *)
(* AuthConfigValidationError: no other fault kind, no empty list.          *)
(***************************************************************************)
C20_IdentityRoleAssignments ==
    IsIdentityRoles =>
        LET t == _get_identity_type(op.user_id, op.directory.identity)
            answer == IF t.type = "#microsoft.graph.user"
                      THEN op.directory.users
                      ELSE op.directory.servicePrincipals
        IN  /\ op.exc \in {"none", "AuthConfigValidationError"}
            /\ (t.exc = "none"
                    /\ t.type \notin {"#microsoft.graph.user",
                                      "#microsoft.graph.servicePrincipal"})
                   => op.exc = "AuthConfigValidationError"
            /\ (t.exc = "none"
                    /\ t.type \in {"#microsoft.graph.user",
                                   "#microsoft.graph.servicePrincipal"}) =>
                /\ op.endpoint =
                       "https://graph.microsoft.com/v1.0/"
                           \o (IF t.type = "#microsoft.graph.user"
                               THEN "users/" ELSE "servicePrincipals/")
                           \o op.user_id \o "/appRoleAssignments"
                /\ ~answer.has_value => op.exc = "AuthConfigValidationError"
                /\ answer.has_value =>
                    /\ op.exc = "none"
                    /\ Len(op.assignments) = Len(answer.value)
                    /\ \A i \in 1..Len(answer.value) :
                        op.assignments[i]
                            = [resource_id |-> answer.value[i].resourceId,
                               role_id |-> answer.value[i].appRoleId]


(***************************************************************************)
(* C14: an exception raised after a successful verification while the User *)
(* is built from the claims or its roles are compared with the required    *)
(* ones ends the request with Deny(Forbidden), HTTP 403.                   *)
(***************************************************************************)
C14_RoleResolutionFaultIs403 ==
    (IsCall /\ Succeeded # {} /\ op.request.token.oid = Absent)
        => op.status = "403"

(***************************************************************************)
(* C15: the key cache grows monotonically: a key id that is in _jwt_keys   *)
(* is in _jwt_keys in every later state, whatever lookups, refreshes and   *)
(* provider changes follow.                                                *)
(***************************************************************************)
C15_CacheGrowsMonotonically ==
    [][DOMAIN jwt_keys \subseteq DOMAIN jwt_keys']_vars

C15_Witness ==
    /\ op.kind = "calling" /\ op.pc = "return" /\ op.jwks_calls = 1
    /\ idp.mode = "ok" /\ idp.keys # <<>>
    /\ \A i \in 1..Len(idp.keys) : idp.keys[i].kid \in DOMAIN jwt_keys
    /\ \E k \in DOMAIN jwt_keys :
        \A i \in 1..Len(idp.keys) : idp.keys[i].kid # k

(***************************************************************************)
(* C16: entries are write-once per key id: the material stored under a key *)
(* id is never changed by a later refresh, even when the provider then     *)
(* publishes other material for that kid.                                  *)
(***************************************************************************)
C16_WriteOncePerKeyId ==
    [][\A k \in DOMAIN jwt_keys \cap DOMAIN jwt_keys' :
          jwt_keys'[k] = jwt_keys[k]]_vars

(***************************************************************************)
(* What racing lookups show                                                *)
(***************************************************************************)
\* the moduli the provider publishes for a key id
Published(key_id) ==
    {idp.keys[i].n : i \in {j \in 1..Len(idp.keys) : idp.keys[j].kid = key_id}}

AllDone == lookups # <<>> /\ \A t \in DOMAIN lookups : lookups[t].pc = "done"

\* the orders in which the lookups can be run one after the other
Orders == {o \in [Threads -> Threads] : \A a, b \in Threads : a # b => o[a] # o[b]}

\* the cache after the lookups are run to completion one by one in an order
RECURSIVE SequentialCache(_, _, _)
SequentialCache(cache, order, i) ==
    IF i > Len(order) THEN cache
    ELSE SequentialCache(
             _get_token_key(lookups[order[i]].key_id, cache, idp).keys,
             order, i + 1)

(***************************************************************************)
(* C17: lookups racing on a cold or partially filled cache are safe        *)
(* without locks: under every interleaving of their check, fetch and store *)
(* steps, with a fixed provider key set, each lookup returns exactly the   *)
(* material the provider publishes for its key id or fails as not found,   *)
(* and the final cache is the one a sequential run of the same lookups     *)
(* gives.                                                                  *)
(***************************************************************************)
C17_RacingLookupsAreSafe ==
    /\ \A t \in DOMAIN lookups :
        lookups[t].pc = "done" =>
            \/ /\ lookups[t].result.exc = "KeyError"
               /\ Published(lookups[t].key_id) = {}
            \/ /\ lookups[t].result.exc = "none"
               /\ \E n \in Published(lookups[t].key_id) :
                      lookups[t].result.key = PemOf(n)
    /\ AllDone =>
        \A o \in Orders : jwt_keys = SequentialCache(<<>>, o, 1)

C17_Witness ==
    /\ AllDone
    /\ lookups[1].key_id # lookups[2].key_id
    /\ \A t \in {1, 2} :
        /\ lookups[t].jwks_calls = 1
        /\ lookups[t].result.exc = "none"


(***************************************************************************)
(* C21: _ensure_b64padding pads with the right number of '=': the result   *)
(* is the input followed only by '=' characters, its length is a multiple  *)
(* of 4, and an input whose length is a multiple of 4 is returned          *)
(* unchanged.                                                              *)
(***************************************************************************)
C21_PaddedToMultipleOfFour ==
    op.kind = "ensure_b64padding" =>
        /\ Len(op.padded) >= Len(op.key)
        /\ SubSeq(op.padded, 1, Len(op.key)) = op.key
        /\ \A i \in (Len(op.key) + 1)..Len(op.padded) : op.padded[i] = "="
        /\ Len(op.padded) % 4 = 0
        /\ Len(op.key) % 4 = 0 => op.padded = op.key

(***************************************************************************)
(* C22: when the required roles hold no core role name and, for a path     *)
(* with a workspace_id, no workspace role name, the gate makes no          *)
(* verification attempt: no key lookup, no metadata or key-set fetch, no   *)
(* workspace lookup; _jwt_keys is unchanged and the request is denied with *)
(* 401 whatever the token is.                                              *)
(***************************************************************************)
C22_NoApplicableRoleNoAttempt ==
    [][(/\ op.kind = "idle" /\ op'.kind \in {"call", "calling"}
        /\ TRE_CORE_ROLES \cap op'.request.require_one_of_roles = {}
        /\ \/ op'.request.workspace_id = Absent
           \/ DOMAIN WORKSPACE_ROLES_DICT
                  \cap op'.request.require_one_of_roles = {})
       => /\ op'.kind = "call"
          /\ op'.attempts = <<>>
          /\ op'.meta_calls = 0 /\ op'.jwks_calls = 0
          /\ jwt_keys' = jwt_keys
          /\ op'.status = "401"]_vars

C22_Witness ==
    /\ IsCall /\ op.attempts = <<>> /\ op.status = "401"
    /\ op.request.workspace_id = Absent
    /\ op.request.require_one_of_roles = {"WorkspaceOwner"}
    /\ jwt_keys = <<>>
    /\ op.request.token.kid = "k1" /\ ~op.request.token.expired
    /\ op.request.token.aud = API_AUDIENCE
    /\ op.request.token.sig_n \in Published("k1")

(***************************************************************************)
(* What the steps of a lookup do around a refresh: only the store loop     *)
(* writes _jwt_keys; a lookup whose key id is not in _jwt_keys asks for    *)
(* the metadata whatever failed before; the key set is asked for only      *)
(* after a metadata answer that is ok and names a jwks_uri; no answer that *)
(* fails brings a key to store; a lookup that fetched a key of its key id  *)
(* returns it.                                                             *)
(***************************************************************************)
RefreshSteps ==
    \A t \in Threads :
        lookups'[t] # lookups[t] =>
            /\ lookups[t].pc # "store" => jwt_keys' = jwt_keys
            /\ (lookups[t].pc = "check"
                    /\ lookups[t].key_id \notin DOMAIN jwt_keys) =>
                lookups'[t].pc = "metadata"
            /\ lookups[t].pc = "metadata" =>
                /\ lookups'[t].meta_calls = 1
                /\ idp.mode \in {"metadata_not_ok", "no_jwks_uri"} =>
                    /\ lookups'[t].pc = "return"
                    /\ lookups'[t].refresh = "failed"
                    /\ lookups'[t].jwks_calls = 0
            /\ lookups[t].pc = "jwks" =>
                /\ lookups'[t].jwks_calls = 1
                /\ idp.mode # "ok" =>
                    /\ lookups'[t].pc = "return"
                    /\ lookups'[t].refresh = "failed"
                /\ (idp.mode = "ok" /\ Published(lookups[t].key_id) # {}) =>
                    lookups'[t].refresh = "with_key"
            /\ (lookups[t].pc = "return" /\ lookups[t].refresh = "with_key") =>
                /\ lookups'[t].result.exc = "none"
                /\ lookups[t].key_id \in DOMAIN jwt_keys

(***************************************************************************)
(* C23 as stated: a refresh that fails (metadata answer not ok or without  *)
(* jwks_uri, key-set answer not ok or without a keys field) leaves         *)
(* _jwt_keys as it was and the lookup fails; the failure is not cached:    *)
(* every lookup of a key id that is not in _jwt_keys makes a fresh refresh *)
(* attempt, and it succeeds once the provider answers with that key.       *)
(***************************************************************************)
C23_FailedRefreshChangesNothing ==
    [][/\ RefreshSteps
       /\ \A t \in Threads :
            (/\ lookups'[t] # lookups[t]
             /\ lookups[t].pc = "return" /\ lookups[t].refresh = "failed") =>
                lookups'[t].result.exc = "KeyError"]_vars

(***************************************************************************)
(* C23 amended: a refresh that fails writes nothing to _jwt_keys, and the  *)
(* lookup fails with KeyError unless another lookup has stored its key id  *)
(* in the meantime, in which case it returns that entry; the failure is    *)
(* not cached, and a lookup that fetches a key of its key id succeeds.     *)
(***************************************************************************)
C23_FailedRefreshFailsUnlessStored ==
    [][/\ RefreshSteps
       /\ \A t \in Threads :
            (/\ lookups'[t] # lookups[t]
             /\ lookups[t].pc = "return" /\ lookups[t].refresh = "failed") =>
                /\ lookups'[t].result = Lookup(jwt_keys, lookups[t].key_id)
                /\ (lookups'[t].result.exc = "KeyError")
                       <=> (lookups[t].key_id \notin DOMAIN jwt_keys)]_vars

C23_Witness ==
    /\ lookups # <<>> /\ idp.mode = "no_keys_field"
    /\ lookups[1].pc = "done" /\ lookups[1].refresh = "failed"
    /\ lookups[1].result.exc = "KeyError"
    /\ lookups[1].meta_calls = 1 /\ lookups[1].jwks_calls = 1
    /\ lookups[1].key_id = "k2"
    /\ DOMAIN jwt_keys = {"k1"}

====
